---- MODULE Spec2Model ----
(***************************************************************************)
(* Model of covreport: the HTML reporter (reporter/internal/html.go), the  *)
(* command-line cutline parser (reporter.ParseCutlines) and the first      *)
(* string-building reporter (reporter/html.go).                            *)
(*                                                                         *)
(* Strings are sequences of one-character strings.  A Go slice is a record *)
(* [arr, len, cap] pointing into a heap of backing arrays, so that the     *)
(* sharing of backing arrays between slices is part of the state.          *)
(***************************************************************************)
EXTENDS Integers, Sequences, FiniteSets, TLC

VARIABLES
    pc,          \* which entry point runs and how far it is
    cutArg,      \* ParseCutlines: the -cutlines argument
    cutResult,   \* ParseCutlines: the returned (*Cutlines, error)
    item,        \* NewTemplateListItemData: the GoListItem
    cutlines,    \* NewTemplateListItemData: the config.Cutlines
    listItem,    \* NewTemplateListItemData: the returned TemplateListItemData
    file,        \* AddFile: the GoFile's source text and Profile
    idx,         \* AddFile: lines of the source already written
    idxProfile,  \* AddFile: the cursor into file.Profile
    dst,         \* AddFile: the lines written to the buffer
    viewLines,   \* AddFile: view.Lines
    accesses,    \* AddFile: the indices i of the file.Profile[i] evaluated so far
    gp,          \* Report: the GoProject (tree, RootPath) and the unreadable files
    data,        \* Report: the TemplateData
    heap,        \* Report: the backing arrays of the Links slices
    err,         \* Report: the returned error
    wr,          \* Report: what was written to the io.Writer
    dirs,        \* GoDirs.Report: the GoDirs tree with its base names
    buf,         \* GoDirs.Report: the strings.Builder the tree is written to
    out,         \* GoDirs.Report: what the template wrote to the output file
    rerr         \* GoDirs.Report: the returned error

vars == <<pc, cutArg, cutResult, item, cutlines, listItem,
          file, idx, idxProfile, dst, viewLines, accesses, gp, data, heap, err, wr,
          dirs, buf, out, rerr>>

writeVars == <<dirs, buf, out, rerr>>

reportVars == <<gp, data, heap, err, wr>>

cutVars  == <<cutArg, cutResult>>
itemVars == <<item, cutlines, listItem>>
fileVars == <<file, idx, idxProfile, dst, viewLines, accesses>>

Nil == "nil"

(***************************************************************************)
(* Bounds                                                                  *)
(***************************************************************************)
MaxArgLen == 5      \* longest -cutlines argument
MaxStmt == 4        \* largest StmtCount of an item
MaxSrcLen == 3      \* longest source text, in characters
MaxLine == 3        \* largest line number of a profile block
MaxBlocks == 2      \* longest file.Profile
MaxNodes == 6       \* most directories and files of a project tree
MaxUnreadable == 1  \* most files whose source cannot be read
MaxDirNodes == 4    \* most directories and files of a GoDirs tree

(***************************************************************************)
(* Strings                                                                 *)
(***************************************************************************)
Strs(alphabet, n) == UNION {[1..k -> alphabet] : k \in 0..n}

Digits == {"0", "1", "2", "3", "4", "5", "6", "7", "8", "9"}

DigitVal(c) ==
    CASE c = "0" -> 0 [] c = "1" -> 1 [] c = "2" -> 2 [] c = "3" -> 3
      [] c = "4" -> 4 [] c = "5" -> 5 [] c = "6" -> 6 [] c = "7" -> 7
      [] c = "8" -> 8 [] c = "9" -> 9

\* strings.Index for a one-character separator: 0 when absent.
IndexOf(s, sep) ==
    IF \E i \in 1..Len(s) : s[i] = sep
    THEN CHOOSE i \in 1..Len(s) : s[i] = sep /\ \A j \in 1..(i-1) : s[j] # sep
    ELSE 0

RECURSIVE Split(_, _)
\* strings.Split(s, sep) for a one-character sep: always at least one fragment.
Split(s, sep) ==
    LET i == IndexOf(s, sep) IN
    IF i = 0 THEN <<s>>
    ELSE <<SubSeq(s, 1, i-1)>> \o Split(SubSeq(s, i+1, Len(s)), sep)

(***************************************************************************)
(* strconv.ParseFloat on decimal literals: digits with at most one point   *)
(* and at least one digit.  A value is the pair (mant, frac) meaning       *)
(* mant / 10^frac, kept without trailing fractional zeros so that equal    *)
(* numbers are equal pairs.                                                *)
(***************************************************************************)
RECURSIVE DecVal(_)
DecVal(ds) ==
    IF Len(ds) = 0 THEN 0
    ELSE 10 * DecVal(SubSeq(ds, 1, Len(ds)-1)) + DigitVal(ds[Len(ds)])

RECURSIVE Normalize(_)
Normalize(v) ==
    IF v.frac > 0 /\ v.mant % 10 = 0
    THEN Normalize([mant |-> v.mant \div 10, frac |-> v.frac - 1])
    ELSE v

Num(n) == [mant |-> n, frac |-> 0]

ParseFloat(s) ==
    LET p     == IndexOf(s, ".")
        whole == IF p = 0 THEN s ELSE SubSeq(s, 1, p-1)
        fract == IF p = 0 THEN <<>> ELSE SubSeq(s, p+1, Len(s))
        ok    == /\ \A i \in 1..Len(whole) : whole[i] \in Digits
                 /\ \A i \in 1..Len(fract) : fract[i] \in Digits
                 /\ Len(whole) + Len(fract) > 0
    IN  IF ok
        THEN [err |-> Nil,
              val |-> Normalize([mant |-> DecVal(whole \o fract), frac |-> Len(fract)])]
        ELSE [err |-> "invalid syntax", val |-> Num(0)]

ParseCutlinesWarningSecond(arg) ==
    LET frags   == Split(arg, ",")
        safe    == ParseFloat(frags[1])
        warning == ParseFloat(frags[IF Len(frags) > 1 THEN 2 ELSE 1])
    IN  IF safe.err # Nil THEN [cutlines |-> Nil, err |-> safe.err]
        ELSE IF warning.err # Nil THEN [cutlines |-> Nil, err |-> warning.err]
        ELSE [cutlines |-> [Safe |-> safe.val, Warning |-> warning.val], err |-> Nil]

ParseCutlines(arg) ==
    LET frags   == Split(arg, ",")
        safe    == ParseFloat(frags[1])
        warning == ParseFloat(frags[Len(frags)])
    IN  IF safe.err # Nil THEN [cutlines |-> Nil, err |-> safe.err]
        ELSE IF warning.err # Nil THEN [cutlines |-> Nil, err |-> warning.err]
        ELSE [cutlines |-> [Safe |-> safe.val, Warning |-> warning.val], err |-> Nil]

IdleCutlines == cutArg = Nil /\ cutResult = Nil
IdleItem == item = Nil /\ cutlines = Nil /\ listItem = Nil
IdleFile == file = Nil /\ idx = Nil /\ idxProfile = Nil /\ dst = Nil /\ viewLines = Nil
            /\ accesses = Nil
IdleReport == gp = Nil /\ data = Nil /\ heap = Nil /\ err = Nil /\ wr = Nil
IdleWrite == dirs = Nil /\ buf = Nil /\ out = Nil /\ rerr = Nil

(***************************************************************************)
(* TemplateData.AddFile: the walk over the source lines and the profile.   *)
(* A *int is <<>> for nil and <<c>> for a pointer to c.                    *)
(***************************************************************************)
RECURSIVE WriteHTMLEscapedCode(_)
WriteHTMLEscapedCode(line) ==
    IF Len(line) = 0 THEN <<>>
    ELSE LET b == Head(line) IN
         (CASE b = ">"  -> <<"&", "g", "t", ";">>
            [] b = "<"  -> <<"&", "l", "t", ";">>
            [] b = "&"  -> <<"&", "a", "m", "p", ";">>
            [] b = "\t" -> <<" ", " ", " ", " ">>
            [] OTHER    -> <<b>>) \o WriteHTMLEscapedCode(Tail(line))

WriteHTMLEscapedLine(lineNumber, count, line) ==
    [number |-> lineNumber,
     class  |-> IF count = <<>> THEN "" ELSE IF count[1] = 0 THEN "uncovered" ELSE "covered",
     times  |-> IF count = <<>> \/ count[1] = 0 THEN <<>> ELSE count,
     code   |-> WriteHTMLEscapedCode(line)]

\* One iteration of the loop over the lines: the cursor after it and the count
\* handed to WriteHTMLEscapedLine.  Profile[i] of the code is Profile[i+1] here.
LineStepNoStartLine(Profile, cursor, lineNumber) ==
    LET numProfileBlock == Len(Profile) IN
    IF cursor < numProfileBlock
    THEN LET first   == Profile[cursor + 1]
             expired == first.EndLine < lineNumber
             next    == IF expired THEN cursor + 1 ELSE cursor
             reread  == expired /\ next < numProfileBlock
             profile == IF reread THEN Profile[next + 1] ELSE first
             inside  == profile.EndLine >= lineNumber
         IN  [idxProfile |-> next,
              count  |-> IF inside THEN <<Profile[next + 1].Count>> ELSE <<>>,
              access |-> <<cursor>> \o (IF reread THEN <<next>> ELSE <<>>)
                                    \o (IF inside THEN <<next>> ELSE <<>>)]
    ELSE [idxProfile |-> cursor, count |-> <<>>, access |-> <<>>]

\* the second read of file.Profile[idxProfile] made without `idxProfile < numProfileBlock`
LineStepUnguardedReread(Profile, cursor, lineNumber) ==
    LET numProfileBlock == Len(Profile) IN
    IF cursor < numProfileBlock
    THEN LET first   == Profile[cursor + 1]
             expired == first.EndLine < lineNumber
             next    == IF expired THEN cursor + 1 ELSE cursor
             reread  == expired
             profile == IF expired /\ next < numProfileBlock THEN Profile[next + 1] ELSE first
             inside  == profile.EndLine >= lineNumber /\ profile.StartLine <= lineNumber
         IN  [idxProfile |-> next,
              count  |-> IF inside THEN <<Profile[next + 1].Count>> ELSE <<>>,
              access |-> <<cursor>> \o (IF reread THEN <<next>> ELSE <<>>)
                                    \o (IF inside THEN <<next>> ELSE <<>>)]
    ELSE [idxProfile |-> cursor, count |-> <<>>, access |-> <<>>]

\* access lists the indices i of the code's file.Profile[i], in the order of
\* lines 101, 105 and 109.
LineStep(Profile, cursor, lineNumber) ==
    LET numProfileBlock == Len(Profile) IN
    IF cursor < numProfileBlock
    THEN LET first   == Profile[cursor + 1]
             expired == first.EndLine < lineNumber
             next    == IF expired THEN cursor + 1 ELSE cursor
             reread  == expired /\ next < numProfileBlock
             profile == IF reread THEN Profile[next + 1] ELSE first
             inside  == profile.EndLine >= lineNumber /\ profile.StartLine <= lineNumber
         IN  [idxProfile |-> next,
              count  |-> IF inside THEN <<Profile[next + 1].Count>> ELSE <<>>,
              access |-> <<cursor>> \o (IF reread THEN <<next>> ELSE <<>>)
                                    \o (IF inside THEN <<next>> ELSE <<>>)]
    ELSE [idxProfile |-> cursor, count |-> <<>>, access |-> <<>>]

SrcChars == {"<", "\n"}
Counts == {0, 7}

ProfileBlocks ==
    {[StartLine |-> a, EndLine |-> b, Count |-> c] :
        <<a, b, c>> \in {x \in (1..MaxLine) \X (1..MaxLine) \X Counts : x[1] <= x[2]}}

InitAddFile ==
    /\ pc = "AddFile"
    /\ file \in [src : Strs(SrcChars, MaxSrcLen),
                 Profile : UNION {[1..k -> ProfileBlocks] : k \in 0..MaxBlocks}]
    /\ idx = 0
    /\ idxProfile = 0
    /\ dst = <<>>
    /\ viewLines = <<>>
    /\ accesses = <<>>
    /\ IdleCutlines /\ IdleItem /\ IdleReport /\ IdleWrite

\* one iteration of `for idx, line := range strings.Split(string(src), "\n")`
AddFileLine ==
    /\ pc = "AddFile"
    /\ LET lines == Split(file.src, "\n") IN
       /\ idx < Len(lines)
       /\ LET lineNumber == idx + 1
              step       == LineStep(file.Profile, idxProfile, lineNumber)
          IN  /\ idxProfile' = step.idxProfile
              /\ dst' = Append(dst, WriteHTMLEscapedLine(lineNumber, step.count, lines[idx + 1]))
              /\ accesses' = accesses \o step.access
       /\ idx' = idx + 1
    /\ UNCHANGED <<pc, file, viewLines, cutVars, itemVars, reportVars, writeVars>>

\* after the loop: dst.Flush() and view.Lines = buf.String()
AddFileFlush ==
    /\ pc = "AddFile"
    /\ idx = Len(Split(file.src, "\n"))
    /\ viewLines' = dst
    /\ pc' = "AddFile:done"
    /\ UNCHANGED <<file, idx, idxProfile, dst, accesses, cutVars, itemVars, reportVars, writeVars>>

NextAddFile == AddFileLine \/ AddFileFlush

SpecAddFile == InitAddFile /\ [][NextAddFile]_vars

(***************************************************************************)
(* GoListItem.Percent and NewTemplateListItemData.  A percentage is the    *)
(* exact fraction num/den; a cutline is a decimal (mant, frac).            *)
(***************************************************************************)
RECURSIVE Pow10(_)
Pow10(k) == IF k = 0 THEN 1 ELSE 10 * Pow10(k - 1)

Percent(it) ==
    IF it.StmtCount = 0 THEN [num |-> 0, den |-> 1]
    ELSE [num |-> 100 * it.StmtCoveredCount, den |-> it.StmtCount]

\* percent < cutline, on float64 values
FloatLess(percent, cut) == percent.num * Pow10(cut.frac) < cut.mant * percent.den

ClassNameLeq(it, cl) ==
    LET percent == Percent(it) IN
    IF it.StmtCount > 0
    THEN IF ~FloatLess(percent, cl.Warning)
               /\ percent.num * Pow10(cl.Warning.frac) # cl.Warning.mant * percent.den
         THEN IF FloatLess(percent, cl.Safe) THEN "warning" ELSE "safe"
         ELSE "danger"
    ELSE ""

ClassNameSwappedLabels(it, cl) ==
    LET percent == Percent(it) IN
    IF it.StmtCount > 0
    THEN IF FloatLess(percent, cl.Warning) THEN "warning"
         ELSE IF FloatLess(percent, cl.Safe) THEN "danger"
         ELSE "safe"
    ELSE ""

ClassName(it, cl) ==
    LET percent == Percent(it) IN
    IF it.StmtCount > 0
    THEN IF FloatLess(percent, cl.Warning) THEN "danger"
         ELSE IF FloatLess(percent, cl.Safe) THEN "warning"
         ELSE "safe"
    ELSE ""

NewTemplateListItemDataSwappedCounts(it, cl) ==
    [ClassName      |-> ClassName(it, cl),
     ID             |-> it.ID,
     Title          |-> it.Title,
     Percent        |-> Percent(it),
     NumStmtCovered |-> it.StmtCount,
     NumStmt        |-> it.StmtCoveredCount]

NewTemplateListItemData(it, cl) ==
    [ClassName      |-> ClassName(it, cl),
     ID             |-> it.ID,
     Title          |-> it.Title,
     Percent        |-> Percent(it),
     NumStmtCovered |-> it.StmtCoveredCount,
     NumStmt        |-> it.StmtCount]

GoListItems ==
    {[ID |-> "id", Title |-> "title", StmtCoveredCount |-> c, StmtCount |-> n] :
        <<c, n>> \in {x \in (0..MaxStmt) \X (0..MaxStmt) : x[1] <= x[2]}}

CutValues == {Num(0), Num(25), [mant |-> 333, frac |-> 1], Num(40), Num(50), Num(70), Num(100)}

InitItem ==
    /\ pc = "NewTemplateListItemData"
    /\ item \in GoListItems
    /\ cutlines \in [Safe : CutValues, Warning : CutValues]
    /\ listItem = Nil
    /\ IdleCutlines /\ IdleFile /\ IdleReport /\ IdleWrite

DoNewTemplateListItemData ==
    /\ pc = "NewTemplateListItemData"
    /\ pc' = "NewTemplateListItemData:done"
    /\ listItem' = NewTemplateListItemData(item, cutlines)
    /\ UNCHANGED <<cutVars, item, cutlines, fileVars, reportVars, writeVars>>

NextItem == DoNewTemplateListItemData

SpecItem == InitItem /\ [][NextItem]_vars

ArgChars == {"3", "5", "7", ".", " ", "x", ","}

InitCutlines ==
    /\ pc = "ParseCutlines"
    /\ cutArg \in Strs(ArgChars, MaxArgLen)
    /\ cutResult = Nil
    /\ IdleItem /\ IdleFile /\ IdleReport /\ IdleWrite

DoParseCutlines ==
    /\ pc = "ParseCutlines"
    /\ pc' = "ParseCutlines:done"
    /\ cutResult' = ParseCutlines(cutArg)
    /\ UNCHANGED <<cutArg, itemVars, fileVars, reportVars, writeVars>>

NextCutlines == DoParseCutlines

SpecCutlines == InitCutlines /\ [][NextCutlines]_vars

(***************************************************************************)
(* The tree of directories and files: of the GoProject (gp), or of the     *)
(* GoDirs of the first reporter (dirs).  Its nodes are 1..n, node 1 the    *)
(* root directory; parent is the tree, isDir tells directories from files, *)
(* and the children of a directory are kept in increasing node order.      *)
(***************************************************************************)
Tree == IF pc \in {"GoDirs.Report", "GoDirs.Report:done"} THEN dirs ELSE gp
Nodes == 1..Tree.n
IsDir(x) == Tree.isDir[x]
Children(d) == {x \in Nodes : Tree.parent[x] = d}

RECURSIVE SortSet(_)
SortSet(S) ==
    IF S = {} THEN <<>>
    ELSE LET m == CHOOSE m \in S : \A y \in S : m <= y
         IN  <<m>> \o SortSet(S \ {m})

SubDirs(d) == SortSet({x \in Children(d) : IsDir(x)})
Files(d) == SortSet({x \in Children(d) : ~IsDir(x)})

Root == 1
ID(x) == x
Title(x) == <<"base", x>>
RelPkgPath(x) == IF x = Root THEN <<".">> ELSE <<"path", x>>

RECURSIVE NodeCounts(_), SumCounts(_)
\* statement counts: a file's own, a directory's the sum over its children
NodeCounts(x) ==
    IF ~IsDir(x) THEN [covered |-> x % 2, total |-> 1 + (x % 2)]
    ELSE SumCounts(Children(x))
SumCounts(S) ==
    IF S = {} THEN [covered |-> 0, total |-> 0]
    ELSE LET y == CHOOSE y \in S : TRUE
             r == SumCounts(S \ {y})
             k == NodeCounts(y)
         IN  [covered |-> r.covered + k.covered, total |-> r.total + k.total]

GoListItem(x) ==
    [ID |-> ID(x), Title |-> Title(x),
     StmtCoveredCount |-> NodeCounts(x).covered, StmtCount |-> NodeCounts(x).total]

FileSrc(f) == <<"a", "\n", "<">>
FileProfile(f) == <<[StartLine |-> 1, EndLine |-> 1, Count |-> f]>>

(***************************************************************************)
(* Go slices of *TemplateLinkData: append writes into the backing array    *)
(* when len < cap and otherwise copies into a new array; the gc runtime    *)
(* doubles the capacity of a small slice (1, 2, 4, 8, ...).                *)
(***************************************************************************)
NilSlice == [arr |-> 0, len |-> 0, cap |-> 0]
NoLink == [ID |-> 0, Title |-> <<>>]

SliceElems(h, sl) == [i \in 1..sl.len |-> h[sl.arr][i]]

GrowCap(oldCap, needed) == IF 2 * oldCap < needed THEN needed ELSE 2 * oldCap

GoAppend(h, sl, x) ==
    IF sl.len < sl.cap
    THEN [heap  |-> [h EXCEPT ![sl.arr][sl.len + 1] = x],
          slice |-> [sl EXCEPT !.len = @ + 1]]
    ELSE LET newcap == GrowCap(sl.cap, sl.len + 1)
             arr    == [i \in 1..newcap |->
                           IF i <= sl.len THEN h[sl.arr][i]
                           ELSE IF i = sl.len + 1 THEN x ELSE NoLink]
         IN  [heap  |-> Append(h, arr),
              slice |-> [arr |-> Len(h) + 1, len |-> sl.len + 1, cap |-> newcap]]

(***************************************************************************)
(* TemplateData.AddDir and TemplateData.AddFile.  td is the TemplateData   *)
(* with the heap and the error of the call that ended last; a view is      *)
(* referred to by its position in td.Views.                                *)
(***************************************************************************)
NoError == <<>>

RECURSIVE Lines(_, _, _, _)
\* the loop of AddFile over all lines, from line i on
Lines(lines, Profile, i, cursor) ==
    IF i > Len(lines) THEN <<>>
    ELSE LET step == LineStep(Profile, cursor, i)
         IN  <<WriteHTMLEscapedLine(i, step.count, lines[i])>>
                 \o Lines(lines, Profile, i + 1, step.idxProfile)

AddFile(td, f, links) ==
    IF f \in gp.unreadable
    THEN [td EXCEPT !.err = <<"can't read", RelPkgPath(f)>>]
    ELSE LET ap   == GoAppend(td.heap, links, [ID |-> ID(f), Title |-> Title(f)])
             view == [ID             |-> ID(f),
                      Links          |-> ap.slice,
                      NumStmtCovered |-> NodeCounts(f).covered,
                      NumStmt        |-> NodeCounts(f).total,
                      IsDir          |-> FALSE,
                      Percent        |-> Percent(GoListItem(f)),
                      Items          |-> <<>>,
                      Lines          |-> Lines(Split(FileSrc(f), "\n"), FileProfile(f), 1, 0)]
         IN  [td EXCEPT !.Views = Append(@, view), !.heap = ap.heap, !.err = NoError]

RECURSIVE AddDir(_, _, _), AddSubDirs(_, _, _, _), AddFiles(_, _, _, _)

\* `for _, subDir := range dir.SubDirs`, from the k-th on, for the view at `at`
AddSubDirs(td, at, subDirs, k) ==
    IF k > Len(subDirs) THEN td
    ELSE LET r == AddDir(td, subDirs[k], td.Views[at].Links) IN
         IF r.err # NoError THEN r
         ELSE AddSubDirs(
                  [r EXCEPT !.Views[at].Items =
                      Append(@, NewTemplateListItemData(GoListItem(subDirs[k]), td.Cutlines))],
                  at, subDirs, k + 1)

AddFilesIgnoreError(td, at, files, k) ==
    IF k > Len(files) THEN td
    ELSE LET r == AddFile(td, files[k], td.Views[at].Links) IN
         AddFiles(
             [r EXCEPT !.err = NoError,
                       !.Views[at].Items =
                 Append(@, NewTemplateListItemData(GoListItem(files[k]), td.Cutlines))],
             at, files, k + 1)

\* `for _, file := range dir.Files`, from the k-th on, for the view at `at`
AddFiles(td, at, files, k) ==
    IF k > Len(files) THEN td
    ELSE LET r == AddFile(td, files[k], td.Views[at].Links) IN
         IF r.err # NoError THEN r
         ELSE AddFiles(
                  [r EXCEPT !.Views[at].Items =
                      Append(@, NewTemplateListItemData(GoListItem(files[k]), td.Cutlines))],
                  at, files, k + 1)

AddDirFilesFirst(td, dir, links) ==
    LET title == IF td.InitialID = ID(dir)
                 THEN IF RelPkgPath(dir) = <<".">> THEN <<"root">> ELSE RelPkgPath(dir)
                 ELSE Title(dir)
        ap    == GoAppend(td.heap, links, [ID |-> ID(dir), Title |-> title])
        view  == [ID             |-> ID(dir),
                  Links          |-> ap.slice,
                  NumStmtCovered |-> NodeCounts(dir).covered,
                  NumStmt        |-> NodeCounts(dir).total,
                  IsDir          |-> TRUE,
                  Percent        |-> Percent(GoListItem(dir)),
                  Items          |-> <<>>,
                  Lines          |-> <<>>]
        td1   == [td EXCEPT !.Views = Append(@, view), !.heap = ap.heap, !.err = NoError]
        at    == Len(td1.Views)
        td2   == AddFiles(td1, at, Files(dir), 1)
    IN  IF td2.err # NoError THEN td2
        ELSE AddSubDirs(td2, at, SubDirs(dir), 1)

AddDir(td, dir, links) ==
    LET title == IF td.InitialID = ID(dir)
                 THEN IF RelPkgPath(dir) = <<".">> THEN <<"root">> ELSE RelPkgPath(dir)
                 ELSE Title(dir)
        ap    == GoAppend(td.heap, links, [ID |-> ID(dir), Title |-> title])
        view  == [ID             |-> ID(dir),
                  Links          |-> ap.slice,
                  NumStmtCovered |-> NodeCounts(dir).covered,
                  NumStmt        |-> NodeCounts(dir).total,
                  IsDir          |-> TRUE,
                  Percent        |-> Percent(GoListItem(dir)),
                  Items          |-> <<>>,
                  Lines          |-> <<>>]
        td1   == [td EXCEPT !.Views = Append(@, view), !.heap = ap.heap, !.err = NoError]
        at    == Len(td1.Views)
        td2   == AddSubDirs(td1, at, SubDirs(dir), 1)
    IN  IF td2.err # NoError THEN td2
        ELSE AddFiles(td2, at, Files(dir), 1)

(***************************************************************************)
(* GoProject.Report                                                        *)
(***************************************************************************)
RECURSIVE DescendAnyFiles(_)
DescendAnyFiles(d) ==
    IF Len(SubDirs(d)) = 1 THEN DescendAnyFiles(SubDirs(d)[1]) ELSE d

RECURSIVE Descend(_)
\* `for len(initialDir.SubDirs) == 1 && len(initialDir.Files) == 0`
Descend(d) ==
    IF Len(SubDirs(d)) = 1 /\ Len(Files(d)) = 0 THEN Descend(SubDirs(d)[1]) ELSE d

InitialDir == IF gp.RootPath = <<".">> THEN Descend(Root) ELSE Root

\* tmpl.Execute: what the template reads of the TemplateData
Execute(td, h) ==
    [InitialID |-> td.InitialID,
     Views     |-> [i \in 1..Len(td.Views) |->
                       [td.Views[i] EXCEPT !.Links = SliceElems(h, td.Views[i].Links)]]]

DefaultCutlines == ParseCutlines(<<"7", "0", ",", "4", "0">>).cutlines

RootPaths == {<<".">>, <<"m">>}

ParentMaps(n) == {f \in [1..n -> 0..(n-1)] : \A x \in 1..n : f[x] < x /\ (x > 1 => f[x] > 0)}

\* a tree as the builder leaves it: the parent of a node is a directory, and
\* every directory but the root holds something
TreeOK(n, parent, isDir) ==
    /\ isDir[1]
    /\ \A x \in 2..n : isDir[parent[x]]
    /\ \A x \in 2..n : isDir[x] => \E y \in 2..n : parent[y] = x

InitReport ==
    /\ pc = "Report"
    /\ \E n \in 1..MaxNodes :
         \E parent \in ParentMaps(n) :
           \E isDir \in [1..n -> BOOLEAN] :
             /\ TreeOK(n, parent, isDir)
             /\ \E unreadable \in SUBSET {x \in 1..n : ~isDir[x]} :
                  /\ Cardinality(unreadable) <= MaxUnreadable
                  /\ \E rootPath \in RootPaths :
                       gp = [n |-> n, parent |-> parent, isDir |-> isDir,
                             RootPath |-> rootPath, Cutlines |-> DefaultCutlines,
                             unreadable |-> unreadable]
    /\ data = [InitialID |-> 0, Cutlines |-> DefaultCutlines, Views |-> <<>>]
    /\ heap = <<>>
    /\ err = NoError
    /\ wr = <<>>
    /\ IdleCutlines /\ IdleItem /\ IdleFile /\ IdleWrite

Report ==
    /\ pc = "Report"
    /\ LET initialDir == InitialDir
           td0 == [InitialID |-> ID(initialDir), Cutlines |-> gp.Cutlines,
                   Views |-> <<>>, heap |-> <<>>, err |-> NoError]
           td1 == AddDir(td0, initialDir, NilSlice)
       IN  /\ data' = [InitialID |-> td1.InitialID, Cutlines |-> td1.Cutlines,
                       Views |-> td1.Views]
           /\ heap' = td1.heap
           /\ err' = td1.err
           /\ wr' = IF td1.err # NoError THEN wr
                    ELSE Append(wr, Execute(td1, td1.heap))
    /\ pc' = "Report:done"
    /\ UNCHANGED <<gp, cutVars, itemVars, fileVars, writeVars>>

Init == InitReport

Next == Report

Spec == Init /\ [][Next]_vars

(***************************************************************************)
(* The first reporter: GoDirs.Report, GoDir.write and GoFile.write build   *)
(* the body of the page as one string.  A view is kept as the record of    *)
(* what its HTML holds.                                                    *)
(***************************************************************************)
Str(s) == [i \in 1..Len(s) |-> s[i]]

\* filepath.Base of a node's dirname or filename
Base(x) == dirs.base[x]

RECURSIVE ReplaceAll(_, _, _)
\* strings.ReplaceAll for a one-character old
ReplaceAll(s, old, new) ==
    IF Len(s) = 0 THEN <<>>
    ELSE (IF Head(s) = old THEN new ELSE <<Head(s)>>) \o ReplaceAll(Tail(s), old, new)

EscapeCode(code) ==
    ReplaceAll(ReplaceAll(ReplaceAll(ReplaceAll(code,
        ">", <<"&", "g", "t", ";">>),
        "<", <<"&", "l", "t", ";">>),
        "&", <<"&", "a", "m", "p", ";">>),
        "\t", <<" ", " ", " ", " ">>)

openHeadingHTML(id, links, subclass, numStmtCovered, numStmt) ==
    [id |-> id, links |-> links, subclass |-> subclass,
     percent |-> IF numStmt = 0 THEN [num |-> 0, den |-> 1]
                 ELSE [num |-> 100 * numStmtCovered, den |-> numStmt],
     numStmtCovered |-> numStmtCovered, numStmt |-> numStmt]

fileItemHTML(id, baseName, numStmtCovered, numStmt) ==
    [href  |-> id, subpath |-> baseName,
     class |-> IF numStmt = 0 THEN ""
               ELSE IF 100 * numStmtCovered > 70 * numStmt THEN "safe"
               ELSE IF 100 * numStmtCovered < 40 * numStmt THEN "danger"
               ELSE "warning",
     numStmtCovered |-> numStmtCovered, numStmt |-> numStmt]

\* one iteration of the loop of GoFile.write over the lines
OldLineStep(Profile, cursor, lineNumber) ==
    LET numProfileBlock == Len(Profile) IN
    IF cursor < numProfileBlock
    THEN IF Profile[cursor + 1].EndLine < lineNumber
         THEN [idxProfile |-> cursor + 1,
               count |-> IF cursor + 1 < numProfileBlock
                         THEN <<Profile[cursor + 2].Count>> ELSE <<>>]
         ELSE [idxProfile |-> cursor, count |-> <<Profile[cursor + 1].Count>>]
    ELSE [idxProfile |-> cursor, count |-> <<>>]

RECURSIVE OldLines(_, _, _, _)
OldLines(lines, Profile, i, cursor) ==
    IF i > Len(lines) THEN <<>>
    ELSE LET step == OldLineStep(Profile, cursor, i)
         IN  <<[WriteHTMLEscapedLine(i, step.count, <<>>) EXCEPT !.code = EscapeCode(lines[i])]>>
                 \o OldLines(lines, Profile, i + 1, step.idxProfile)

\* GoFile.write: the buffer after it (unchanged when the source is unreadable)
GoFileWrite(w, f, links, id, basename) ==
    IF f \in dirs.unreadable THEN w
    ELSE Append(w,
           [heading |-> openHeadingHTML(id, Append(links, [tag |-> "span", href |-> <<>>, text |-> basename]),
                                        "codes", NodeCounts(f).covered, NodeCounts(f).total),
            lines   |-> OldLines(Split(FileSrc(f), "\n"), FileProfile(f), 1, 0),
            items   |-> <<>>])

RECURSIVE GoDirWrite(_, _, _, _, _), WriteSubDirs(_, _, _, _, _), WriteFiles(_, _, _, _, _)

\* the loops of GoDir.write: st is the buffer w with the filesHTML built so far
WriteSubDirs(st, subDirs, links, id, k) ==
    IF k > Len(subDirs) THEN st
    ELSE LET subDirBasename == Base(subDirs[k])
             subDirID       == id \o <<"-">> \o subDirBasename
             w1             == GoDirWrite(st.w, subDirs[k], links, subDirID, subDirBasename)
         IN  WriteSubDirs(
                 [w |-> w1,
                  items |-> Append(st.items,
                      fileItemHTML(subDirID, subDirBasename, NodeCounts(subDirs[k]).covered,
                                   NodeCounts(subDirs[k]).total))],
                 subDirs, links, id, k + 1)

WriteFiles(st, files, links, id, k) ==
    IF k > Len(files) THEN st
    ELSE LET fileBasename == Base(files[k])
             fileID       == id \o <<"-">> \o fileBasename
             w1           == GoFileWrite(st.w, files[k], links, fileID, fileBasename)
         IN  WriteFiles(
                 [w |-> w1,
                  items |-> Append(st.items,
                      fileItemHTML(fileID, fileBasename, NodeCounts(files[k]).covered,
                                   NodeCounts(files[k]).total))],
                 files, links, id, k + 1)

\* GoDir.write: the buffer after it
GoDirWrite(w, dir, links, id, basename) ==
    LET links1 == Append(links, [tag |-> "a", href |-> id, text |-> basename])
        st1    == WriteSubDirs([w |-> w, items |-> <<>>], SubDirs(dir), links1, id, 1)
        st2    == WriteFiles(st1, Files(dir), links1, id, 1)
    IN  Append(st2.w,
           [heading |-> openHeadingHTML(id, links1, "files", NodeCounts(dir).covered,
                                        NodeCounts(dir).total),
            lines   |-> <<>>,
            items   |-> st2.items])

BaseNames == {Str(<<"a">>), Str(<<"b">>), Str(<<"a", "-", "b">>)}

InitWrite ==
    /\ pc = "GoDirs.Report"
    /\ \E n \in 1..MaxDirNodes :
         \E parent \in ParentMaps(n) :
           \E isDir \in [1..n -> BOOLEAN] :
             /\ TreeOK(n, parent, isDir)
             /\ \E base \in [1..n -> BaseNames] :
                  /\ \A x, y \in 2..n : x # y /\ parent[x] = parent[y] => base[x] # base[y]
                  /\ base[1] = Str(<<"a">>)
                  /\ \E unreadable \in SUBSET {x \in 1..n : ~isDir[x]} :
                       /\ Cardinality(unreadable) <= MaxUnreadable
                       /\ \E createFails \in BOOLEAN :
                            dirs = [n |-> n, parent |-> parent, isDir |-> isDir,
                                    base |-> base, unreadable |-> unreadable,
                                    createFails |-> createFails]
    /\ buf = <<>>
    /\ out = <<>>
    /\ rerr = NoError
    /\ IdleCutlines /\ IdleItem /\ IdleFile /\ IdleReport

GoDirsReport ==
    /\ pc = "GoDirs.Report"
    /\ IF dirs.createFails
       THEN /\ rerr' = <<"can't create">>
            /\ UNCHANGED <<buf, out>>
       ELSE /\ buf' = GoDirWrite(<<>>, Root, <<>>, Str(<<"r", "o", "o", "t">>),
                                 Str(<<"r", "o", "o", "t">>))
            /\ out' = Append(out, buf')
            /\ rerr' = NoError
    /\ pc' = "GoDirs.Report:done"
    /\ UNCHANGED <<dirs, cutVars, itemVars, fileVars, reportVars>>

NextWrite == GoDirsReport

SpecWrite == InitWrite /\ [][NextWrite]_vars

(***************************************************************************)
(* Properties                                                              *)
(***************************************************************************)

\* each block starts at line 1 or later, ends no earlier than it starts, has a
\* count >= 0, and starts after the block before it has ended
SortedDisjoint(Profile) ==
    /\ \A i \in 1..Len(Profile) :
          /\ Profile[i].StartLine >= 1
          /\ Profile[i].EndLine >= Profile[i].StartLine
          /\ Profile[i].Count >= 0
    /\ \A i \in 1..(Len(Profile) - 1) : Profile[i+1].StartLine > Profile[i].EndLine

NumLines(src) == 1 + Cardinality({i \in 1..Len(src) : src[i] = "\n"})

Expected(Profile, L) ==
    IF \E i \in 1..Len(Profile) : Profile[i].StartLine <= L /\ L <= Profile[i].EndLine
    THEN LET i == CHOOSE i \in 1..Len(Profile) :
                      Profile[i].StartLine <= L /\ L <= Profile[i].EndLine
         IN  IF Profile[i].Count > 0 THEN <<"Covered", Profile[i].Count>>
             ELSE <<"Uncovered">>
    ELSE <<"NotInstrumented">>

Annotation(line) ==
    CASE line.class = ""          -> <<"NotInstrumented">>
      [] line.class = "uncovered" -> <<"Uncovered">>
      [] line.class = "covered"   -> <<"Covered", line.times[1]>>

\* C1: with blocks sorted by StartLine and pairwise line-disjoint, AddFile writes
\* one annotation per line, for lines 1..n in order; line L is Covered(count) or
\* Uncovered after the block that contains it, NotInstrumented when none does.
C1_Annotation ==
    pc \in {"AddFile", "AddFile:done"} /\ SortedDisjoint(file.Profile) =>
        /\ \A k \in 1..Len(dst) :
              /\ dst[k].number = k
              /\ Annotation(dst[k]) = Expected(file.Profile, k)
        /\ Len(dst) = idx
        /\ pc = "AddFile:done" =>
              /\ viewLines = dst
              /\ Len(viewLines) = NumLines(file.src)

\* lines 1-4 with blocks [{2,2,0},{3,3,7}]: a line before the first block, an
\* uncovered one, a covered one after a cursor advance, a line after the last block
C1_Witness ==
    /\ pc = "AddFile:done"
    /\ NumLines(file.src) = 4
    /\ file.Profile = <<[StartLine |-> 2, EndLine |-> 2, Count |-> 0],
                        [StartLine |-> 3, EndLine |-> 3, Count |-> 7]>>
    /\ [k \in 1..4 |-> Annotation(viewLines[k])] =
          <<<<"NotInstrumented">>, <<"Uncovered">>, <<"Covered", 7>>,
            <<"NotInstrumented">>>>

Rank(class) == CASE class = "danger" -> 1 [] class = "warning" -> 2 [] class = "safe" -> 3

PercentLeq(p1, p2) == p1.num * p2.den <= p2.num * p1.den

\* C8: for fixed cutlines (also with Warning > Safe) and items with StmtCount > 0,
\* a percentage that is not larger never gets a higher class rank.
C8_Monotone ==
    pc = "NewTemplateListItemData:done" /\ item.StmtCount > 0 =>
        \A other \in GoListItems :
            other.StmtCount > 0 /\ PercentLeq(Percent(other), Percent(item)) =>
                Rank(NewTemplateListItemData(other, cutlines).ClassName)
                    <= Rank(listItem.ClassName)

\* Warning above Safe, an item between the two cutlines and one below both
C8_Witness ==
    /\ pc = "NewTemplateListItemData:done"
    /\ cutlines.Warning = Num(70) /\ cutlines.Safe = Num(40)
    /\ item.StmtCoveredCount = 1 /\ item.StmtCount = 2
    /\ listItem.ClassName = "danger"
    /\ \E other \in GoListItems :
          /\ other.StmtCount > 0 /\ PercentLeq(Percent(other), Percent(item))
          /\ Percent(other) # Percent(item)

\* the text before the first comma and the text after the last comma
FirstFragment(s) ==
    LET k == CHOOSE k \in 0..Len(s) :
                 /\ \A i \in 1..k : s[i] # ","
                 /\ k < Len(s) => s[k+1] = ","
    IN  SubSeq(s, 1, k)

LastFragment(s) ==
    LET k == CHOOSE k \in 0..Len(s) :
                 /\ \A i \in (k+1)..Len(s) : s[i] # ","
                 /\ k > 0 => s[k] = ","
    IN  SubSeq(s, k+1, Len(s))

HasSpace(s) == \E i \in 1..Len(s) : s[i] = " "

\* C9: ParseCutlines takes Safe from the first comma-separated fragment and
\* Warning from the last one, and returns an error and no cutlines when either
\* is not a number (empty, or with spaces around it).
C9_ParseCutlines ==
    pc = "ParseCutlines:done" =>
        LET first == FirstFragment(cutArg)
            last  == LastFragment(cutArg)
            bad   == ParseFloat(first).err # Nil \/ ParseFloat(last).err # Nil
        IN  /\ bad => cutResult.err # Nil /\ cutResult.cutlines = Nil
            /\ ~bad => /\ cutResult.err = Nil
                       /\ cutResult.cutlines.Safe = ParseFloat(first).val
                       /\ cutResult.cutlines.Warning = ParseFloat(last).val
            /\ (first = <<>> \/ last = <<>> \/ HasSpace(first) \/ HasSpace(last))
                   => cutResult.err # Nil
            /\ cutArg = <<"3">> =>
                   cutResult.cutlines = [Safe |-> Num(3), Warning |-> Num(3)]
            /\ cutArg = <<"3", ",", "5">> =>
                   cutResult.cutlines = [Safe |-> Num(3), Warning |-> Num(5)]

\* "3,5,7" parsed to Safe = 3, Warning = 7
C9_Witness ==
    /\ pc = "ParseCutlines:done"
    /\ cutArg = <<"3", ",", "5", ",", "7">>
    /\ cutResult.err = Nil
    /\ cutResult.cutlines = [Safe |-> Num(3), Warning |-> Num(7)]

RECURSIVE AncestorsOf(_)
AncestorsOf(x) ==
    IF x = Root THEN {} ELSE {Tree.parent[x]} \cup AncestorsOf(Tree.parent[x])

\* the nodes of the subtree of d
Reachable(d) == {x \in Nodes : x = d \/ d \in AncestorsOf(x)}

RECURSIVE PathFrom(_, _)
\* the nodes from d down to its descendant x
PathFrom(d, x) == IF x = d THEN <<d>> ELSE Append(PathFrom(d, Tree.parent[x]), x)

\* among the children of one directory: subdirectories first, then files,
\* each group in the order of dir.SubDirs and dir.Files
ChildBefore(x, y) ==
    \/ IsDir(x) /\ ~IsDir(y)
    \/ IsDir(x) = IsDir(y) /\ x < y

\* pre-order: an ancestor first, otherwise by the children at which the paths part
Precedes(x, y) ==
    /\ x # y
    /\ \/ x \in AncestorsOf(y)
       \/ /\ y \notin AncestorsOf(x)
          /\ LET px == PathFrom(Root, x)
                 py == PathFrom(Root, y)
                 k  == CHOOSE k \in 1..Len(px) : px[k] # py[k] /\ \A j \in 1..(k-1) : px[j] = py[j]
             IN  ChildBefore(px[k], py[k])

DisplayRoot == data.InitialID

LinkOf(x) ==
    [ID    |-> ID(x),
     Title |-> IF x = DisplayRoot
               THEN IF x = Root THEN <<"root">> ELSE RelPkgPath(x)
               ELSE Title(x)]

Rendered == wr[1].Views

\* C2: in the TemplateData handed to the template every view's Links is the
\* chain of nodes from the display-root down to the view's own node.
C2_Breadcrumbs ==
    pc = "Report:done" /\ err = NoError =>
        \A i \in 1..Len(Rendered) :
            LET path == PathFrom(DisplayRoot, Rendered[i].ID)
            IN  Rendered[i].Links = [k \in 1..Len(path) |-> LinkOf(path[k])]

\* C3: with every file readable the views are exactly the nodes under the
\* display-root, each once, in pre-order (a directory before its descendants, its
\* subdirectories' subtrees before its files), the display-root's first.
C3_PreOrder ==
    pc = "Report:done" /\ gp.unreadable = {} =>
        /\ err = NoError
        /\ {data.Views[i].ID : i \in 1..Len(data.Views)} = Reachable(DisplayRoot)
        /\ Len(data.Views) = Cardinality(Reachable(DisplayRoot))
        /\ data.Views[1].ID = DisplayRoot
        /\ \A i, j \in 1..Len(data.Views) :
              i < j => Precedes(data.Views[i].ID, data.Views[j].ID)
        /\ [i \in 1..Len(Rendered) |-> Rendered[i].ID]
              = [i \in 1..Len(data.Views) |-> data.Views[i].ID]

\* a directory with a file and a subdirectory that holds files: the
\* subdirectory's file is listed before the directory's own file
C3_Witness ==
    /\ pc = "Report:done" /\ err = NoError
    /\ \E i, j \in 1..Len(data.Views) :
          /\ i < j
          /\ ~IsDir(data.Views[i].ID) /\ ~IsDir(data.Views[j].ID)
          /\ data.Views[i].ID > data.Views[j].ID
          /\ gp.parent[data.Views[i].ID] > Root
          /\ gp.parent[gp.parent[data.Views[i].ID]] = gp.parent[data.Views[j].ID]

Collapsible(d) == Cardinality({x \in Children(d) : IsDir(x)}) = 1
                  /\ {x \in Children(d) : ~IsDir(x)} = {}

\* the first directory on the chain from the root that is not "one
\* subdirectory and no files"
IsChainEnd(d) == IsDir(d) /\ ~Collapsible(d) /\ \A a \in AncestorsOf(d) : Collapsible(a)

\* C5 as stated: for every root path the display-root is the end of the chain
\* of single-subdirectory, file-less directories that starts at the root.
C5_CollapseAnyRootPath ==
    pc = "Report:done" => IsChainEnd(DisplayRoot)

\* C5, amended: when RootPath is "." the display-root is the end of that
\* chain; for any other RootPath it is the tree root itself.
C5_Collapse ==
    pc = "Report:done" =>
        /\ gp.RootPath = <<".">> => IsChainEnd(DisplayRoot)
        /\ gp.RootPath # <<".">> => DisplayRoot = Root

\* root with the single file-less child directory pkg that holds two files
C5_Witness ==
    /\ pc = "Report:done"
    /\ gp.RootPath = <<".">>
    /\ gp.n = 4
    /\ gp.parent = <<0, 1, 2, 2>>
    /\ gp.isDir = <<TRUE, TRUE, FALSE, FALSE>>
    /\ DisplayRoot = 2

ViewedNodes == {data.Views[i].ID : i \in 1..Len(data.Views)}

\* C6: an unreadable file under the display-root makes AddFile fail with an
\* error naming its path; nothing after it is processed, Report returns the
\* error and writes nothing.  Output is written only when every file was read.
C6_Unreadable ==
    pc = "Report:done" =>
        LET bad == gp.unreadable \cap Reachable(DisplayRoot) IN
        /\ bad # {} =>
              /\ wr = <<>>
              /\ \E u \in bad :
                    /\ err = <<"can't read", RelPkgPath(u)>>
                    /\ ViewedNodes = {x \in Reachable(DisplayRoot) : Precedes(x, u)}
                    /\ \A i \in 1..Len(data.Views) :
                          \A k \in 1..Len(data.Views[i].Items) :
                              Precedes(data.Views[i].Items[k].ID, u)
        /\ bad = {} => err = NoError /\ Len(wr) = 1

\* an unreadable file with a later sibling and a later sibling of its directory
C6_Witness ==
    /\ pc = "Report:done"
    /\ err # NoError
    /\ wr = <<>>
    /\ \E u \in gp.unreadable :
          /\ \E x \in Nodes : gp.parent[x] = gp.parent[u] /\ Precedes(u, x)
          /\ \E x \in Nodes : x \in Reachable(DisplayRoot) /\ Precedes(u, x)
                              /\ gp.parent[x] # gp.parent[u]
          /\ \E x \in ViewedNodes : ~IsDir(x)

\* C7: a directory view's Items are one summary per direct child, the
\* subdirectories in the order of dir.SubDirs and then the files in the order of
\* dir.Files, each with the child's ID, title and statement counts.
C7_Items ==
    pc = "Report:done" /\ err = NoError =>
        \A i \in 1..Len(data.Views) :
            LET v == data.Views[i] IN
            IsDir(v.ID) =>
                LET kids == SubDirs(v.ID) \o Files(v.ID) IN
                /\ Len(v.Items) = Len(SubDirs(v.ID)) + Len(Files(v.ID))
                /\ Len(v.Items) = Cardinality(Children(v.ID))
                /\ \A k \in 1..Len(v.Items) :
                      /\ v.Items[k].ID = ID(kids[k])
                      /\ v.Items[k].Title = Title(kids[k])
                      /\ v.Items[k].NumStmtCovered = NodeCounts(kids[k]).covered
                      /\ v.Items[k].NumStmt = NodeCounts(kids[k]).total
                /\ \A k, m \in 1..Len(v.Items) :
                      k < m => ChildBefore(v.Items[k].ID, v.Items[m].ID)
                /\ Rendered[i].Items = v.Items

\* a directory with two subdirectories and two files, lower-numbered files
C7_Witness ==
    /\ pc = "Report:done" /\ err = NoError
    /\ \E i \in 1..Len(data.Views) :
          /\ Len(data.Views[i].Items) >= 3
          /\ \E k \in 1..Len(data.Views[i].Items) :
                /\ k > 1
                /\ data.Views[i].Items[k].ID < data.Views[i].Items[1].ID
                /\ data.Views[i].Items[k].NumStmt # data.Views[i].Items[1].NumStmt

\* C10 as stated: no two nodes of the tree get the same identifier (siblings
\* having distinct base names, which may contain '-').
C10_UniqueIDs ==
    pc = "GoDirs.Report:done" /\ ~dirs.createFails /\ dirs.unreadable = {} =>
        /\ Len(buf) = dirs.n
        /\ \A i, j \in 1..Len(buf) : i # j => buf[i].heading.id # buf[j].heading.id

\* the ids of the views in the rendered body, and the ids the item lists link to
ViewIDs == {buf[i].heading.id : i \in 1..Len(buf)}
ItemLinks == UNION {{buf[i].items[k].href : k \in 1..Len(buf[i].items)} : i \in 1..Len(buf)}

\* C11 as stated: when GoFile.write cannot read a file, GoDirs.Report returns an
\* error and renders nothing; whenever it renders, every item link has its view.
C11_UnreadableFatal ==
    pc = "GoDirs.Report:done" /\ ~dirs.createFails =>
        /\ dirs.unreadable # {} => rerr # NoError /\ out = <<>>
        /\ out # <<>> => ItemLinks \subseteq ViewIDs

SortedByStartLine(Profile) ==
    \A i \in 1..(Len(Profile) - 1) : Profile[i].StartLine <= Profile[i+1].StartLine

\* the first block that has not ended before line L, 0 when there is none
FirstLive(Profile, L) ==
    IF \E i \in 1..Len(Profile) : Profile[i].EndLine >= L
    THEN CHOOSE i \in 1..Len(Profile) :
             Profile[i].EndLine >= L /\ \A j \in 1..(i-1) : Profile[j].EndLine < L
    ELSE 0

\* C12 as stated: with blocks sorted by StartLine (neighbours may share lines),
\* when line L is tested the cursor is past the last block or at a block with
\* EndLine >= L, and a line inside the first block that has not ended is
\* annotated from that block.  idx is the line tested last, idxProfile the cursor
\* at its test.
C12_CursorAdvanced ==
    pc \in {"AddFile", "AddFile:done"} /\ SortedByStartLine(file.Profile) =>
        /\ idx >= 1 =>
              \/ idxProfile = Len(file.Profile)
              \/ file.Profile[idxProfile + 1].EndLine >= idx
        /\ \A k \in 1..Len(dst) :
              LET f == FirstLive(file.Profile, k) IN
              f > 0 /\ file.Profile[f].StartLine <= k =>
                  Annotation(dst[k]) =
                      IF file.Profile[f].Count > 0 THEN <<"Covered", file.Profile[f].Count>>
                      ELSE <<"Uncovered">>

\* C13: for any source and any block list the cursor starts at 0, never
\* decreases, stays within 0..len(file.Profile), every file.Profile[i] is
\* evaluated with 0 <= i < len(file.Profile), and file.Profile is not modified.
C13_CursorBounds ==
    /\ [](/\ idx = 0 => idxProfile = 0
          /\ 0 <= idxProfile /\ idxProfile <= Len(file.Profile)
          /\ \A k \in 1..Len(accesses) :
                0 <= accesses[k] /\ accesses[k] < Len(file.Profile))
    /\ [][idxProfile' >= idxProfile /\ file'.Profile = file.Profile]_vars

\* an unsorted list of two blocks, four lines, the cursor moved past the last block
C13_Witness ==
    /\ pc = "AddFile:done"
    /\ Len(file.Profile) = 2
    /\ file.Profile[1].StartLine > file.Profile[2].EndLine
    /\ NumLines(file.src) = 4
    /\ idxProfile = Len(file.Profile)
    /\ Len(accesses) >= 5

====
